---------------------------- MODULE Spec2Model ----------------------------
(* The %%dedalus cell magic of magic/magic_dedalus.py as a state machine:  *)
(* option parsing, the MPI probes, the command builder, the materialized   *)
(* script, the launch of the subprocess, the relay of its output and the   *)
(* cleanup; and the wrapped script itself as it runs on the MPI ranks.     *)
(* Text is kept as sequences of one-character strings wherever the code    *)
(* converts, searches or compares it.                                      *)
EXTENDS Integers, Sequences, FiniteSets, TLC

(***************************************************************************)
(* Bounds of the model.                                                    *)
(***************************************************************************)
\* longest option line, in shlex tokens
MaxArgs == 3
\* most output lines the launched subprocess writes
MaxLines == 2
\* number of MPI ranks that run the wrapped script
NumRanks == 2

(***************************************************************************)
(* Program constants.                                                      *)
(***************************************************************************)
MICROMAMBA == "/content/micromamba/bin/micromamba"
ENV_NAME == "dedalus"
\* timeout=5 of the probe's subprocess.run
ProbeTimeout == 5

(***************************************************************************)
(* Characters and text.                                                    *)
(***************************************************************************)
Digits == {"0", "1", "2", "3", "4", "5", "6", "7", "8", "9"}

DigitVal(c) ==
    CASE c = "0" -> 0 [] c = "1" -> 1 [] c = "2" -> 2 [] c = "3" -> 3
      [] c = "4" -> 4 [] c = "5" -> 5 [] c = "6" -> 6 [] c = "7" -> 7
      [] c = "8" -> 8 [] c = "9" -> 9

DigitChar(d) ==
    CASE d = 0 -> "0" [] d = 1 -> "1" [] d = 2 -> "2" [] d = 3 -> "3"
      [] d = 4 -> "4" [] d = 5 -> "5" [] d = 6 -> "6" [] d = 7 -> "7"
      [] d = 8 -> "8" [] d = 9 -> "9"

\* str.lower() on one character of the probe alphabet
LowerChar(c) ==
    CASE c = "O" -> "o" [] c = "P" -> "p" [] c = "E" -> "e" [] c = "N" -> "n"
      [] c = "M" -> "m" [] c = "I" -> "i" [] c = "C" -> "c" [] c = "H" -> "h"
      [] OTHER -> c

\* str.lower()
Lower(t) == [i \in 1..Len(t) |-> LowerChar(t[i])]

\* Python's `needle in text` on strings
Contains(text, needle) ==
    \E i \in 0..(Len(text) - Len(needle)) :
        SubSeq(text, i + 1, i + Len(needle)) = needle

\* Python's `tok in args` on a list
InList(tok, list) == \E i \in 1..Len(list) : list[i] = tok

\* list.index(tok): the position of the first occurrence
Index(list, tok) ==
    CHOOSE i \in 1..Len(list) :
        list[i] = tok /\ \A j \in 1..(i - 1) : list[j] # tok

\* all sequences over S of length at most n
SeqsUpTo(S, n) == UNION {[1..k -> S] : k \in 0..n}

(***************************************************************************)
(* int() and str().                                                        *)
(***************************************************************************)
\* the digits of an integer literal, its sign removed
Unsigned(t) == IF t # <<>> /\ t[1] \in {"+", "-"} THEN Tail(t) ELSE t

\* int(t) succeeds: an optional sign and at least one digit
IsIntLiteral(t) ==
    /\ Unsigned(t) # <<>>
    /\ \A i \in 1..Len(Unsigned(t)) : Unsigned(t)[i] \in Digits

RECURSIVE DigitsValue(_)
DigitsValue(ds) ==
    IF ds = <<>> THEN 0
    ELSE 10 * DigitsValue(SubSeq(ds, 1, Len(ds) - 1)) + DigitVal(ds[Len(ds)])

\* int(t) for a literal that parses
IntOf(t) ==
    IF t[1] = "-" THEN 0 - DigitsValue(Unsigned(t)) ELSE DigitsValue(Unsigned(t))

RECURSIVE NatStr(_)
NatStr(n) ==
    IF n < 10 THEN <<DigitChar(n)>>
    ELSE NatStr(n \div 10) \o <<DigitChar(n % 10)>>

\* str(n) of an int
Str(n) == IF n < 0 THEN <<"-">> \o NatStr(0 - n) ELSE NatStr(n)

(***************************************************************************)
(* The option line.                                                        *)
(***************************************************************************)
TokNp == <<"-", "n", "p">>
TokInfo == <<"-", "-", "i", "n", "f", "o">>
TokTime == <<"-", "-", "t", "i", "m", "e">>

\* the tokens option lines are drawn from
Tokens == {TokNp, TokInfo, TokTime, <<"2">>, <<"-", "2">>, <<"x">>}

OptionLines == SeqsUpTo(Tokens, MaxArgs)

\* int(args[args.index("-np") + 1]) raises ValueError or IndexError
NpRaises(a) ==
    \/ Index(a, TokNp) + 1 > Len(a)
    \/ ~IsIntLiteral(a[Index(a, TokNp) + 1])

\* the value np holds after the option block
ParsedNp(a) ==
    IF InList(TokNp, a) THEN IntOf(a[Index(a, TokNp) + 1]) ELSE 1

(***************************************************************************)
(* The MPI probes: micromamba run -n dedalus mpiexec --version.            *)
(***************************************************************************)
T_OpenMPI == <<"O", "p", "e", "n", " ", "M", "P", "I">>
T_OPEN_MPI == <<"O", "P", "E", "N", "-", "M", "P", "I">>
T_open_mpi == <<"o", "p", "e", "n", "-", "m", "p", "i">>
T_openmpi == <<"o", "p", "e", "n", "m", "p", "i">>
T_MPICH == <<"M", "P", "I", "C", "H">>
T_Open == <<"O", "p", "e", "n">>
T_MPI == <<" ", "M", "P", "I">>
T_TwoLines == <<"H", "\n", "o", "p", "e", "n", " ", "m", "p", "i">>
T_unknown == <<"u", "n", "k", "n", "o", "w", "n">>

\* what one stream of the probe may hold
ProbeTexts ==
    {<<>>, T_OpenMPI, T_OPEN_MPI, T_open_mpi, T_openmpi, T_MPICH, T_Open,
     T_MPI, T_TwoLines}

\* one run of the probe command: whether the binary is found, how long the
\* child runs, its exit status and what it wrote to each stream
ProbeRuns ==
    [found : BOOLEAN, secs : {1, ProbeTimeout + 1}, rc : {0, 1},
     stdout : ProbeTexts, stderr : ProbeTexts]

\* the probe runs the invocation draws its version string from
VersionRuns ==
    {r \in ProbeRuns : r.stderr = <<>> /\ r.stdout \in {<<>>, T_OpenMPI}}

\* subprocess.run(cmd, ..., timeout=5) raises: FileNotFoundError when the
\* binary is missing, TimeoutExpired when the child outlives the timeout;
\* check is not set, so an exit status never raises
RunRaises(r) == ~r.found \/ r.secs > ProbeTimeout

\* the needles of the substring test
N_open_mpi == <<"o", "p", "e", "n", " ", "m", "p", "i">>
N_open_dash_mpi == <<"o", "p", "e", "n", "-", "m", "p", "i">>

\* detect_mpi without .lower(): the substring test is case-sensitive
detect_mpi_CaseSensitive(r) ==
    IF RunRaises(r) THEN "mpich"
    ELSE LET txt == r.stdout \o r.stderr
         IN  IF Contains(txt, N_open_mpi) \/ Contains(txt, N_open_dash_mpi)
             THEN "openmpi"
             ELSE "mpich"

detect_mpi(r) ==
    IF RunRaises(r) THEN "mpich"
    ELSE LET txt == Lower(r.stdout \o r.stderr)
         IN  IF Contains(txt, N_open_mpi) \/ Contains(txt, N_open_dash_mpi)
             THEN "openmpi"
             ELSE "mpich"

\* str.splitlines()[0] of a non-empty text
RECURSIVE FirstLine(_)
FirstLine(t) ==
    IF t = <<>> \/ t[1] = "\n" THEN <<>> ELSE <<t[1]>> \o FirstLine(Tail(t))

mpi_version(r) ==
    IF RunRaises(r) \/ r.stdout \o r.stderr = <<>> THEN T_unknown
    ELSE FirstLine(r.stdout \o r.stderr)

(***************************************************************************)
(* The command builder.                                                    *)
(***************************************************************************)
\* build_cmd with the launcher choice inverted
build_cmd_SwappedLauncher(impl, n, script_path) ==
    LET launcher == IF impl = "openmpi" THEN "mpiexec" ELSE "mpirun"
    IN  <<MICROMAMBA, "run", "-n", ENV_NAME,
          launcher, "-n", Str(n),
          "python", script_path>>

build_cmd(impl, n, script_path) ==
    LET launcher == IF impl = "openmpi" THEN "mpirun" ELSE "mpiexec"
    IN  <<MICROMAMBA, "run", "-n", ENV_NAME,
          launcher, "-n", Str(n),
          "python", script_path>>

(***************************************************************************)
(* The materialized script, as the sequence of its statements.             *)
(***************************************************************************)
\* info_code: every rank imports dedalus and MPI, rank 0 prints the report
info_code == <<"import", "print_info_if_rank0">>

\* the timed wrapper without the barrier after the user code
wrapped_NoSecondBarrier(timed) ==
    IF timed
    THEN <<"import", "Barrier", "t0", "try_user_except_abort",
           "t1", "print_elapsed_if_rank0">>
    ELSE <<"try_user_except_abort">>

\* the text written in normal mode: the timed wrapper or the plain guard
wrapped(timed) ==
    IF timed
    THEN <<"import", "Barrier", "t0", "try_user_except_abort",
           "Barrier", "t1", "print_elapsed_if_rank0">>
    ELSE <<"try_user_except_abort">>

(***************************************************************************)
(* State.                                                                  *)
(***************************************************************************)
VARIABLES
    args,       \* shlex.split(line)
    pc,         \* where the invocation stands
    np,         \* rank count
    info_mode,  \* "--info" in args
    time_mode,  \* "--time" in args
    mpi_impl,   \* detect_mpi(env), "" before the probe
    mpi_ver,    \* mpi_version(env), <<>> before the probe
    probes,     \* probe subprocesses run so far
    tmp,        \* the file NamedTemporaryFile created, "" if none
    script,     \* the local variable script, "" while unset
    written,    \* the text written to the temporary file
    files,      \* temporary files that exist on disk
    cmd,        \* the last command build_cmd returned, <<>> if none
    launches,   \* launcher subprocesses spawned
    process,    \* the launcher subprocess: "none", "running", "exited"
    pipeOpen,   \* the subprocess still holds the write end of its output
    emitted,    \* every line the subprocess wrote, in order
    pipe,       \* lines written to the pipe and not yet read
    out,        \* what the magic printed to the cell output
    exc,        \* the exceptions raised so far; the last one is in flight
    removals,   \* calls of os.remove made
    probe,      \* the probe run handed to the prober on its own
    prog,       \* the script the ranks execute
    rpc,        \* per rank: the statement it stands at
    rst,        \* per rank: what it is doing
    entered,    \* per rank: barriers it has entered
    user,       \* per rank: how its user code went
    t0,         \* per rank: _t0 is set
    t1,         \* per rank: _t1 is set
    sout,       \* what the ranks printed
    aborted     \* MPI_Abort was called

optvars == <<args, np, info_mode, time_mode>>
probevars == <<mpi_impl, mpi_ver, probes>>
filevars == <<tmp, script, written, files, removals>>
procvars == <<cmd, launches, process, pipeOpen, emitted, pipe>>
rankvars == <<prog, rpc, rst, entered, user, t0, t1, sout, aborted>>
auxvars == <<probe, rankvars>>
magicvars ==
    <<args, pc, np, info_mode, time_mode, mpi_impl, mpi_ver, probes, tmp,
      script, written, files, cmd, launches, process, pipeOpen, emitted, pipe,
      out, exc, removals>>
vars == <<magicvars, auxvars>>

\* the ranks of the parallel run; rank 0 coordinates
Ranks == 0..(NumRanks - 1)

\* no probe run is fixed
NoProbe == [found |-> FALSE, secs |-> 0, rc |-> 0, stdout |-> <<>>, stderr |-> <<>>]

\* names tempfile may pick
TmpNames == {"/tmp/tmpA.py"}

\* the lines a subprocess may write, each on one of its two streams
ChildLines ==
    {[stream |-> "stdout", txt |-> "a"], [stream |-> "stderr", txt |-> "b"]}

MagicLine(t) == [stream |-> "magic", txt |-> t]

\* the lines of a sequence that were written to one stream
RECURSIVE OfStream(_, _)
OfStream(ls, st) ==
    IF ls = <<>> THEN <<>>
    ELSE (IF ls[1].stream = st THEN <<ls[1]>> ELSE <<>>)
         \o OfStream(Tail(ls), st)

InitMagic ==
    /\ args \in OptionLines
    /\ pc = "parse"
    /\ np = 1
    /\ info_mode = FALSE
    /\ time_mode = FALSE
    /\ mpi_impl = ""
    /\ mpi_ver = <<>>
    /\ probes = 0
    /\ tmp = ""
    /\ script = ""
    /\ written = <<>>
    /\ files = {}
    /\ cmd = <<>>
    /\ launches = 0
    /\ process = "none"
    /\ pipeOpen = FALSE
    /\ emitted = <<>>
    /\ pipe = <<>>
    /\ out = <<>>
    /\ exc = <<>>
    /\ removals = 0
    /\ probe = NoProbe
    /\ prog = <<>>
    /\ rpc = [r \in Ranks |-> 1]
    /\ rst = [r \in Ranks |-> "idle"]
    /\ entered = [r \in Ranks |-> 0]
    /\ user = [r \in Ranks |-> "none"]
    /\ t0 = [r \in Ranks |-> FALSE]
    /\ t1 = [r \in Ranks |-> FALSE]
    /\ sout = <<>>
    /\ aborted = FALSE

(***************************************************************************)
(* Options: lines 49-63.                                                   *)
(***************************************************************************)
\* the option block without the return after the error message
ParseOptions_NoReturn ==
    /\ pc = "parse"
    /\ info_mode' = InList(TokInfo, args)
    /\ time_mode' = InList(TokTime, args)
    /\ IF InList(TokNp, args) /\ NpRaises(args)
       THEN /\ out' = Append(out, MagicLine("-np option requires an integer argument"))
            /\ np' = np
            /\ pc' = "detect"
       ELSE /\ np' = ParsedNp(args)
            /\ pc' = "detect"
            /\ out' = out
    /\ UNCHANGED <<auxvars, args, probevars, filevars, procvars, exc>>

ParseOptions ==
    /\ pc = "parse"
    /\ info_mode' = InList(TokInfo, args)
    /\ time_mode' = InList(TokTime, args)
    /\ IF InList(TokNp, args) /\ NpRaises(args)
       THEN /\ out' = Append(out, MagicLine("-np option requires an integer argument"))
            /\ np' = np
            /\ pc' = "done"
       ELSE /\ np' = ParsedNp(args)
            /\ pc' = "detect"
            /\ out' = out
    /\ UNCHANGED <<auxvars, args, probevars, filevars, procvars, exc>>

(***************************************************************************)
(* Probes: lines 77-78.                                                    *)
(***************************************************************************)
DetectMpi ==
    /\ pc = "detect"
    /\ \E r \in ProbeRuns : mpi_impl' = detect_mpi(r)
    /\ probes' = probes + 1
    /\ pc' = "version"
    /\ UNCHANGED <<auxvars, optvars, mpi_ver, filevars, procvars, out, exc>>

MpiVersion ==
    /\ pc = "version"
    /\ \E r \in VersionRuns : mpi_ver' = mpi_version(r)
    /\ probes' = probes + 1
    /\ pc' = "materialize"
    /\ UNCHANGED <<auxvars, optvars, mpi_impl, filevars, procvars, out, exc>>

(***************************************************************************)
(* Script materializer: lines 117-119 (--info) and 194-196 (normal).       *)
(* NamedTemporaryFile(delete=False) creates the file; an error of the      *)
(* write or of the close leaves the with block before script is bound and  *)
(* before the try statement is entered.                                    *)
(***************************************************************************)
Materialize ==
    /\ pc = "materialize"
    /\ \/ \E name \in TmpNames \ files :
            /\ tmp' = name
            /\ files' = files \cup {name}
            /\ \/ /\ written' = IF info_mode THEN info_code ELSE wrapped(time_mode)
                  /\ script' = name
                  /\ pc' = IF info_mode THEN "inforun" ELSE "spawn"
                  /\ exc' = exc
               \/ /\ written' = <<>>
                  /\ script' = script
                  /\ pc' = "done"
                  /\ exc' = Append(exc, "OSError in write")
       \/ /\ pc' = "done"
          /\ exc' = Append(exc, "OSError in NamedTemporaryFile")
          /\ UNCHANGED <<tmp, files, written, script>>
    /\ UNCHANGED <<auxvars, optvars, probevars, removals, procvars, out>>

(***************************************************************************)
(* The launched subprocess (the environment of the magic).                 *)
(***************************************************************************)
\* the subprocess writes a line: to the pipe in normal mode (stderr is
\* redirected to stdout), to the capture buffers in --info mode
ChildEmit ==
    /\ process = "running"
    /\ pipeOpen
    /\ Len(emitted) < MaxLines
    /\ \E l \in ChildLines :
         /\ emitted' = Append(emitted, l)
         /\ pipe' = IF info_mode THEN pipe ELSE Append(pipe, l)
    /\ UNCHANGED <<auxvars, optvars, probevars, filevars, cmd, launches, process,
                   pipeOpen, pc, out, exc>>

\* the subprocess closes its output and keeps running
ChildClose ==
    /\ process = "running"
    /\ pipeOpen
    /\ pipeOpen' = FALSE
    /\ UNCHANGED <<auxvars, optvars, probevars, filevars, cmd, launches, process,
                   emitted, pipe, pc, out, exc>>

ChildExit ==
    /\ process = "running"
    /\ process' = "exited"
    /\ pipeOpen' = FALSE
    /\ UNCHANGED <<auxvars, optvars, probevars, filevars, cmd, launches,
                   emitted, pipe, pc, out, exc>>

\* something other than the magic deletes the temporary file
ExternalRemove ==
    /\ pc \in {"relay", "wait", "cleanup", "remove", "infowait"}
    /\ tmp \in files
    /\ files' = files \ {tmp}
    /\ UNCHANGED <<auxvars, optvars, probevars, tmp, script, written, removals,
                   procvars, pc, out, exc>>

(***************************************************************************)
(* Normal execution: lines 198-223.                                        *)
(***************************************************************************)
\* Popen outside the try statement: a launch failure skips the finally
Spawn_OutsideTry ==
    /\ pc = "spawn"
    /\ cmd' = build_cmd(mpi_impl, np, script)
    /\ \/ /\ process' = "running"
          /\ pipeOpen' = TRUE
          /\ launches' = launches + 1
          /\ pc' = "relay"
          /\ exc' = exc
       \/ /\ pc' = "done"
          /\ exc' = Append(exc, "OSError in Popen")
          /\ UNCHANGED <<process, pipeOpen, launches>>
    /\ UNCHANGED <<auxvars, optvars, probevars, filevars, emitted, pipe, out>>

\* subprocess.Popen(build_cmd(script), ...): lines 206-214
Spawn ==
    /\ pc = "spawn"
    /\ cmd' = build_cmd(mpi_impl, np, script)
    /\ \/ /\ process' = "running"
          /\ pipeOpen' = TRUE
          /\ launches' = launches + 1
          /\ pc' = "relay"
          /\ exc' = exc
       \/ /\ pc' = "cleanup"
          /\ exc' = Append(exc, "OSError in Popen")
          /\ UNCHANGED <<process, pipeOpen, launches>>
    /\ UNCHANGED <<auxvars, optvars, probevars, filevars, emitted, pipe, out>>

\* the relay once the subprocess has exited: output held back until the end
RelayLine_Buffered ==
    /\ pc = "relay"
    /\ pipe # <<>>
    /\ process = "exited"
    /\ out' = Append(out, Head(pipe))
    /\ pipe' = Tail(pipe)
    /\ UNCHANGED <<auxvars, optvars, probevars, filevars, cmd, launches, process,
                   pipeOpen, emitted, pc, exc>>

\* one turn of `for line in process.stdout: print(line, end="")`
RelayLine ==
    /\ pc = "relay"
    /\ pipe # <<>>
    /\ out' = Append(out, Head(pipe))
    /\ pipe' = Tail(pipe)
    /\ UNCHANGED <<auxvars, optvars, probevars, filevars, cmd, launches, process,
                   pipeOpen, emitted, pc, exc>>

\* the loop ends at end of file
RelayEOF ==
    /\ pc = "relay"
    /\ pipe = <<>>
    /\ ~pipeOpen
    /\ pc' = "wait"
    /\ UNCHANGED <<auxvars, optvars, probevars, filevars, procvars, out, exc>>

\* the wait left out: control reaches the finally clause at end of file
Wait_NoWait ==
    /\ pc = "wait"
    /\ pc' = "cleanup"
    /\ UNCHANGED <<auxvars, optvars, probevars, filevars, procvars, out, exc>>

\* process.wait(): line 219
Wait ==
    /\ pc = "wait"
    /\ process = "exited"
    /\ pc' = "cleanup"
    /\ UNCHANGED <<auxvars, optvars, probevars, filevars, procvars, out, exc>>

\* an exception inside the try block while reading, printing or waiting
\* (a user interrupt of the cell): control passes to the finally clause
Interrupt ==
    /\ pc \in {"relay", "wait"}
    /\ exc' = Append(exc, "KeyboardInterrupt")
    /\ pc' = "cleanup"
    /\ UNCHANGED <<auxvars, optvars, probevars, filevars, procvars, out>>

\* finally: if os.path.exists(script): line 222
CleanupCheck ==
    /\ pc = "cleanup"
    /\ pc' = IF script \in files THEN "remove" ELSE "done"
    /\ UNCHANGED <<auxvars, optvars, probevars, filevars, procvars, out, exc>>

\* os.remove(script): line 223, and line 129 in --info mode.  The call
\* deletes the file, or raises (the file is gone, or the delete fails);
\* what it raises replaces an exception already in flight.
Remove ==
    /\ pc = "remove"
    /\ removals' = removals + 1
    /\ IF script \in files
       THEN \/ /\ files' = files \ {script}
               /\ exc' = exc
               /\ pc' = IF info_mode /\ exc = <<>> THEN "infotail" ELSE "done"
            \/ /\ files' = files
               /\ exc' = Append(exc, "OSError in remove")
               /\ pc' = "done"
       ELSE /\ files' = files
            /\ exc' = Append(exc, "FileNotFoundError in remove")
            /\ pc' = "done"
    /\ UNCHANGED <<auxvars, optvars, probevars, tmp, script, written, procvars, out>>

(***************************************************************************)
(* --info mode: lines 102-138.                                             *)
(***************************************************************************)
\* subprocess.run(build_cmd(script), capture_output=True) starts the child
InfoRun ==
    /\ pc = "inforun"
    /\ cmd' = build_cmd(mpi_impl, np, script)
    /\ \/ /\ process' = "running"
          /\ pipeOpen' = TRUE
          /\ launches' = launches + 1
          /\ pc' = "infowait"
          /\ exc' = exc
       \/ /\ pc' = "remove"
          /\ exc' = Append(exc, "OSError in Popen")
          /\ UNCHANGED <<process, pipeOpen, launches>>
    /\ UNCHANGED <<auxvars, optvars, probevars, filevars, emitted, pipe, out>>

\* subprocess.run returns once the child exited; then the captured stdout
\* is printed, then the captured stderr: lines 126-127
InfoCollect ==
    /\ pc = "infowait"
    /\ process = "exited"
    /\ out' = out \o OfStream(emitted, "stdout") \o OfStream(emitted, "stderr")
    /\ pc' = "remove"
    /\ UNCHANGED <<auxvars, optvars, probevars, filevars, procvars, exc>>

\* an exception while subprocess.run waits: run kills the child, waits for
\* it and re-raises
InfoInterrupt ==
    /\ pc = "infowait"
    /\ process' = "exited"
    /\ pipeOpen' = FALSE
    /\ exc' = Append(exc, "KeyboardInterrupt")
    /\ pc' = "remove"
    /\ UNCHANGED <<auxvars, optvars, probevars, filevars, cmd, launches, emitted,
                   pipe, out>>

\* the runtime report: lines 131-138
InfoTail ==
    /\ pc = "infotail"
    /\ out' = Append(out, MagicLine("Dedalus runtime info"))
    /\ pc' = "done"
    /\ UNCHANGED <<auxvars, optvars, probevars, filevars, procvars, exc>>


Next ==
    \/ ParseOptions
    \/ DetectMpi
    \/ MpiVersion
    \/ Materialize
    \/ ChildEmit
    \/ ChildClose
    \/ ChildExit
    \/ ExternalRemove
    \/ Spawn
    \/ RelayLine
    \/ RelayEOF
    \/ Wait
    \/ Interrupt
    \/ CleanupCheck
    \/ Remove
    \/ InfoRun
    \/ InfoCollect
    \/ InfoInterrupt
    \/ InfoTail

Spec == InitMagic /\ [][Next]_vars

(***************************************************************************)
(* Properties of one invocation of the magic (Spec).                       *)
(***************************************************************************)
IsPrefix(a, b) == Len(a) <= Len(b) /\ SubSeq(b, 1, Len(a)) = a

\* the subprocess lines among what the magic printed
ChildPrinted == SelectSeq(out, LAMBDA l : l.stream # "magic")

\* the exception the invocation ends with, "" on a normal return
Raised == IF exc = <<>> THEN "" ELSE exc[Len(exc)]

WasRaised(e) == \E i \in 1..Len(exc) : exc[i] = e

\* the token that follows the -np option (the first -np token of the line,
\* the one the option block reads) is missing or is no integer: an integer
\* is an optional sign followed by decimal digits, at least one
NpArgumentBad(a) ==
    \E i \in 1..Len(a) :
        /\ a[i] = TokNp
        /\ \A j \in 1..(i - 1) : a[j] # TokNp
        /\ \/ i = Len(a)
           \/ LET t == a[i + 1]
                  d == IF t[1] \in {"+", "-"} THEN SubSeq(t, 2, Len(t)) ELSE t
              IN  d = <<>> \/ \E k \in 1..Len(d) : d[k] \notin Digits

\* the token the option line gives after -np, <<"1">> without -np
RequestedRanks(a) ==
    IF \E i \in 1..Len(a) : a[i] = TokNp
    THEN LET i == CHOOSE k \in 1..Len(a) :
                      a[k] = TokNp /\ \A j \in 1..(k - 1) : a[j] # TokNp
         IN  a[i + 1]
    ELSE <<"1">>

\* t is the decimal numeral str() writes: digits only after an optional
\* minus sign, no leading zero, no minus zero
IsDecimalNumeral(t) ==
    LET d == IF t # <<>> /\ t[1] = "-" THEN SubSeq(t, 2, Len(t)) ELSE t
    IN  /\ d # <<>>
        /\ \A k \in 1..Len(d) : d[k] \in Digits
        /\ Len(d) > 1 => d[1] # "0"
        /\ t[1] = "-" => d # <<"0">>

\* C1: an invocation that created a temporary script and has ended by a
\* normal return, by the failure to launch the subprocess or by an exception
\* raised while relaying or waiting has left no temporary script on disk.
C1_ScriptGoneAtEnd ==
    (/\ pc = "done"
     /\ tmp # ""
     /\ Raised \in {"", "OSError in Popen", "KeyboardInterrupt"})
    => tmp \notin files

C1_Witness ==
    /\ pc = "done"
    /\ tmp # ""
    /\ Raised = "OSError in Popen"
    /\ removals = 1
    /\ tmp \notin files

\* C2: when the -np option is followed by a token that is no integer, or by
\* nothing, the invocation prints the error message and ends: no probe and
\* no launcher was spawned, no command was built, no temporary file was
\* created and nothing is raised, whatever other flags the line holds.
C2_BadNpEndsBeforeAnySubprocess ==
    (NpArgumentBad(args) /\ pc # "parse")
    => /\ pc = "done"
       /\ out = <<MagicLine("-np option requires an integer argument")>>
       /\ probes = 0
       /\ launches = 0
       /\ process = "none"
       /\ cmd = <<>>
       /\ tmp = ""
       /\ files = {}
       /\ exc = <<>>

C2_Witness ==
    /\ NpArgumentBad(args)
    /\ InList(TokInfo, args)
    /\ pc = "done"
    /\ Len(out) = 1

\* C3: every command that is built carries a rank count of at least 1.
C3_RankCountAtLeastOne ==
    cmd # <<>> => (np >= 1 /\ IntOf(cmd[7]) >= 1)

\* C5: the command built is exactly micromamba run -n dedalus L -n str(n)
\* python s, with L = mpirun for openmpi and mpiexec otherwise, n the integer
\* after -np (1 without -np) and s the script path, in every mode.
C5_CommandVector ==
    cmd # <<>>
    => /\ cmd = <<"/content/micromamba/bin/micromamba", "run", "-n", "dedalus",
                  (IF mpi_impl = "openmpi" THEN "mpirun" ELSE "mpiexec"),
                  "-n", cmd[7], "python", script>>
       /\ IsDecimalNumeral(cmd[7])
       /\ IntOf(cmd[7]) = IntOf(RequestedRanks(args))
       /\ IntOf(cmd[7]) = np
       /\ script = tmp
       /\ script # ""

C5_Witness ==
    /\ cmd # <<>>
    /\ mpi_impl = "openmpi"
    /\ cmd[5] = "mpirun"
    /\ cmd[7] = <<"2">>
    /\ np = 2
    /\ time_mode

\* C8 as claimed: in every launch the lines printed are the lines written,
\* once each and in order; a line that has arrived can be forwarded at once,
\* while the subprocess runs; a normal return comes after the subprocess
\* exited, with every line forwarded.
C8_StreamsEveryLaunch ==
    launches > 0
    => /\ IsPrefix(ChildPrinted, emitted)
       /\ (pc \in {"relay", "infowait"} /\ Len(ChildPrinted) < Len(emitted))
          => ENABLED (RelayLine \/ InfoCollect)
       /\ (pc = "done" /\ exc = <<>>)
          => (ChildPrinted = emitted /\ process = "exited")

\* C8 amended: in normal mode the lines printed are the lines written, once
\* each and in order; a line that has arrived can be forwarded at once,
\* whether or not the subprocess has exited; a normal return comes after the
\* subprocess exited, with every line forwarded.  In --info mode nothing is
\* printed before the subprocess has exited, and then its stdout lines are
\* printed, followed by its stderr lines.
C8_StreamsInNormalMode ==
    launches > 0
    => IF ~info_mode
       THEN /\ IsPrefix(ChildPrinted, emitted)
            /\ pc = "relay" => ChildPrinted \o pipe = emitted
            /\ (pc = "relay" /\ Len(ChildPrinted) < Len(emitted))
               => ENABLED RelayLine
            /\ (pc = "done" /\ exc = <<>>)
               => (ChildPrinted = emitted /\ process = "exited")
       ELSE /\ pc = "infowait" => ChildPrinted = <<>>
            /\ ChildPrinted # <<>> => process = "exited"
            /\ (pc \in {"infotail", "done"} /\ ~WasRaised("KeyboardInterrupt"))
               => ChildPrinted = OfStream(emitted, "stdout")
                                   \o OfStream(emitted, "stderr")

C8_Witness ==
    /\ ~info_mode
    /\ process = "running"
    /\ Len(ChildPrinted) = 1
    /\ Len(emitted) = 2

\* C9: at the end of an invocation that materialized a script the removal
\* was attempted, and no error of the removal is raised to the caller.
C9_RemovalFailureNotEscalated ==
    (pc = "done" /\ script # "")
    => /\ removals > 0 \/ script \notin files
       /\ ~WasRaised("OSError in remove")
       /\ ~WasRaised("FileNotFoundError in remove")

\* C10 as claimed: at most one launch, lines relayed only after it, and the
\* cleanup never runs while the spawned subprocess is running.
C10_CleanupOnlyTerminated ==
    /\ launches <= 1
    /\ ChildPrinted # <<>> => launches = 1
    /\ (pc \in {"cleanup", "remove"} \/ removals > 0) => process # "running"

\* C10 amended: at most one launch; before it there is no subprocess, no
\* relayed line and no cleanup; the cleanup runs once, after the relay; it
\* never runs while the spawned subprocess is running unless an exception
\* (a user interrupt) cut the relay or the wait short.
C10_CleanupOnlyTerminatedUnlessCutShort ==
    /\ launches <= 1
    /\ removals <= 1
    /\ launches = 0 <=> process = "none"
    /\ launches = 0 => (ChildPrinted = <<>> /\ emitted = <<>>)
    /\ pc \in {"parse", "detect", "version", "materialize", "spawn", "inforun"}
       => (launches = 0 /\ removals = 0)
    /\ pc \in {"relay", "wait", "infowait"} => (launches = 1 /\ removals = 0)
    /\ ((pc \in {"cleanup", "remove"} \/ removals > 0)
        /\ ~WasRaised("KeyboardInterrupt"))
       => process # "running"

C10_Witness ==
    /\ pc = "remove"
    /\ ~info_mode
    /\ exc = <<>>
    /\ process = "exited"
    /\ ChildPrinted # <<>>


(***************************************************************************)
(* The prober on its own: detect_mpi and mpi_version applied to one probe  *)
(* run drawn from ProbeRuns.                                               *)
(***************************************************************************)
InitProbe ==
    /\ probe \in ProbeRuns
    /\ args = <<>>
    /\ pc = "detect"
    /\ np = 1
    /\ info_mode = FALSE
    /\ time_mode = FALSE
    /\ mpi_impl = ""
    /\ mpi_ver = <<>>
    /\ probes = 0
    /\ tmp = ""
    /\ script = ""
    /\ written = <<>>
    /\ files = {}
    /\ cmd = <<>>
    /\ launches = 0
    /\ process = "none"
    /\ pipeOpen = FALSE
    /\ emitted = <<>>
    /\ pipe = <<>>
    /\ out = <<>>
    /\ exc = <<>>
    /\ removals = 0
    /\ prog = <<>>
    /\ rpc = [r \in Ranks |-> 1]
    /\ rst = [r \in Ranks |-> "idle"]
    /\ entered = [r \in Ranks |-> 0]
    /\ user = [r \in Ranks |-> "none"]
    /\ t0 = [r \in Ranks |-> FALSE]
    /\ t1 = [r \in Ranks |-> FALSE]
    /\ sout = <<>>
    /\ aborted = FALSE

CallDetect ==
    /\ pc = "detect"
    /\ mpi_impl' = detect_mpi(probe)
    /\ probes' = probes + 1
    /\ pc' = "version"
    /\ UNCHANGED <<auxvars, optvars, mpi_ver, filevars, procvars, out, exc>>

CallVersion ==
    /\ pc = "version"
    /\ mpi_ver' = mpi_version(probe)
    /\ probes' = probes + 1
    /\ pc' = "probed"
    /\ UNCHANGED <<auxvars, optvars, mpi_impl, filevars, procvars, out, exc>>

NextProbe == CallDetect \/ CallVersion

SpecProbe == InitProbe /\ [][NextProbe]_vars

(***************************************************************************)
(* Properties of the prober (SpecProbe).                                   *)
(***************************************************************************)
\* needle occurs in text when letter case is ignored
OccursIgnoringCase(text, needle) ==
    \E i \in 1..Len(text) :
        /\ i + Len(needle) - 1 <= Len(text)
        /\ \A k \in 1..Len(needle) :
               LowerChar(text[i + k - 1]) = LowerChar(needle[k])

ProbeOutput == probe.stdout \o probe.stderr

\* C4 as claimed: openmpi when the combined output contains "open mpi" in
\* any letter case; mpich for any other output and on a timeout, a missing
\* binary or a non-zero exit status; a variant is always returned.
C4_ClassifiesByOpenMpiOnly ==
    pc # "detect"
    => mpi_impl =
         IF /\ probe.found
            /\ probe.secs <= 5
            /\ probe.rc = 0
            /\ OccursIgnoringCase(ProbeOutput, <<"o", "p", "e", "n", " ", "m", "p", "i">>)
         THEN "openmpi"
         ELSE "mpich"

\* C4 amended: openmpi when the probe ends within the timeout, with any exit
\* status, and its combined output contains "open mpi" or "open-mpi" in any
\* letter case; mpich for any other output, on a timeout and on a missing
\* binary; a variant is always returned.
C4_ClassifiesByEitherSpelling ==
    pc # "detect"
    => mpi_impl =
         IF /\ probe.found
            /\ probe.secs <= 5
            /\ \/ OccursIgnoringCase(ProbeOutput, <<"o", "p", "e", "n", " ", "m", "p", "i">>)
               \/ OccursIgnoringCase(ProbeOutput, <<"o", "p", "e", "n", "-", "m", "p", "i">>)
         THEN "openmpi"
         ELSE "mpich"

C4_Witness ==
    /\ pc # "detect"
    /\ probe.found
    /\ probe.secs <= 5
    /\ probe.stdout = T_Open
    /\ probe.stderr = T_MPI
    /\ mpi_impl = "openmpi"


(***************************************************************************)
(* The wrapped script as the launcher runs it, one copy per rank:          *)
(* lines 146-181 (timed) and 184-192 (plain).                              *)
(***************************************************************************)
InitScript ==
    /\ time_mode \in BOOLEAN
    /\ args = IF time_mode THEN <<TokTime>> ELSE <<>>
    /\ prog = wrapped(time_mode)
    /\ written = wrapped(time_mode)
    /\ rpc = [r \in Ranks |-> 1]
    /\ rst = [r \in Ranks |-> "run"]
    /\ entered = [r \in Ranks |-> 0]
    /\ user = [r \in Ranks |-> "none"]
    /\ t0 = [r \in Ranks |-> FALSE]
    /\ t1 = [r \in Ranks |-> FALSE]
    /\ sout = <<>>
    /\ aborted = FALSE
    /\ probe = NoProbe
    /\ pc = "relay"
    /\ np = NumRanks
    /\ info_mode = FALSE
    /\ mpi_impl = "mpich"
    /\ mpi_ver = T_unknown
    /\ probes = 2
    /\ tmp = "/tmp/tmpA.py"
    /\ script = "/tmp/tmpA.py"
    /\ files = {"/tmp/tmpA.py"}
    /\ cmd = build_cmd("mpich", NumRanks, "/tmp/tmpA.py")
    /\ launches = 1
    /\ process = "running"
    /\ pipeOpen = TRUE
    /\ emitted = <<>>
    /\ pipe = <<>>
    /\ out = <<>>
    /\ exc = <<>>
    /\ removals = 0

\* the statement rank r stands at, "" past the end
Stmt(r) == IF rpc[r] <= Len(prog) THEN prog[rpc[r]] ELSE ""

Advance(r) == rpc' = [rpc EXCEPT ![r] = @ + 1]

\* from mpi4py import MPI; import time; _comm, _rank, _size
StepImport(r) ==
    /\ rst[r] = "run"
    /\ Stmt(r) = "import"
    /\ Advance(r)
    /\ UNCHANGED <<magicvars, probe, prog, rst, entered, user, t0, t1, sout, aborted>>

\* _comm.Barrier(): the rank enters the barrier and blocks in it
BarrierEnter(r) ==
    /\ rst[r] = "run"
    /\ Stmt(r) = "Barrier"
    /\ entered' = [entered EXCEPT ![r] = @ + 1]
    /\ rst' = [rst EXCEPT ![r] = "barrier"]
    /\ UNCHANGED <<magicvars, probe, prog, rpc, user, t0, t1, sout, aborted>>

\* the barrier releases a rank once every rank has entered it
BarrierLeave(r) ==
    /\ rst[r] = "barrier"
    /\ \A q \in Ranks : entered[q] >= entered[r]
    /\ rst' = [rst EXCEPT ![r] = "run"]
    /\ Advance(r)
    /\ UNCHANGED <<magicvars, probe, prog, entered, user, t0, t1, sout, aborted>>

\* _t0 = time.perf_counter()
StepT0(r) ==
    /\ rst[r] = "run"
    /\ Stmt(r) = "t0"
    /\ t0' = [t0 EXCEPT ![r] = TRUE]
    /\ Advance(r)
    /\ UNCHANGED <<magicvars, probe, prog, rst, entered, user, t1, sout, aborted>>

\* _t1 = time.perf_counter()
StepT1(r) ==
    /\ rst[r] = "run"
    /\ Stmt(r) = "t1"
    /\ t1' = [t1 EXCEPT ![r] = TRUE]
    /\ Advance(r)
    /\ UNCHANGED <<magicvars, probe, prog, rst, entered, user, t0, sout, aborted>>

\* try: the rank enters the user code
UserBegin(r) ==
    /\ rst[r] = "run"
    /\ Stmt(r) = "try_user_except_abort"
    /\ rst' = [rst EXCEPT ![r] = "user"]
    /\ user' = [user EXCEPT ![r] = "running"]
    /\ UNCHANGED <<magicvars, probe, prog, rpc, entered, t0, t1, sout, aborted>>

\* the user code runs to its end: control leaves the try statement
UserReturn(r) ==
    /\ rst[r] = "user"
    /\ rst' = [rst EXCEPT ![r] = "run"]
    /\ user' = [user EXCEPT ![r] = "returned"]
    /\ Advance(r)
    /\ UNCHANGED <<magicvars, probe, prog, entered, t0, t1, sout, aborted>>

\* the user code raises an Exception: `except Exception as e` takes it
UserRaise(r) ==
    /\ rst[r] = "user"
    /\ rst' = [rst EXCEPT ![r] = "handler"]
    /\ user' = [user EXCEPT ![r] = "Exception"]
    /\ UNCHANGED <<magicvars, probe, prog, rpc, entered, t0, t1, sout, aborted>>

\* the user code raises a BaseException that is no Exception (sys.exit,
\* KeyboardInterrupt): `except Exception` does not take it, the interpreter
\* of this rank ends
UserExit(r) ==
    /\ rst[r] = "user"
    /\ rst' = [rst EXCEPT ![r] = "exited"]
    /\ user' = [user EXCEPT ![r] = "BaseException"]
    /\ UNCHANGED <<magicvars, probe, prog, rpc, entered, t0, t1, sout, aborted>>

\* traceback.print_exc(); Abort(1): the runtime ends every rank
HandlerAbort(r) ==
    /\ rst[r] = "handler"
    /\ sout' = Append(sout, [rank |-> r, what |-> "traceback"])
    /\ aborted' = TRUE
    /\ rst' = [q \in Ranks |-> IF rst[q] \in {"done", "exited"} THEN rst[q] ELSE "killed"]
    /\ UNCHANGED <<magicvars, probe, prog, rpc, entered, user, t0, t1>>

\* if _rank == 0: print(elapsed)
StepPrintElapsed(r) ==
    /\ rst[r] = "run"
    /\ Stmt(r) = "print_elapsed_if_rank0"
    /\ sout' = IF r = 0 THEN Append(sout, [rank |-> r, what |-> "elapsed"]) ELSE sout
    /\ Advance(r)
    /\ UNCHANGED <<magicvars, probe, prog, rst, entered, user, t0, t1, aborted>>

\* the script's last statement is behind the rank: its interpreter ends
ScriptEnd(r) ==
    /\ rst[r] = "run"
    /\ Stmt(r) = ""
    /\ rst' = [rst EXCEPT ![r] = "done"]
    /\ UNCHANGED <<magicvars, probe, prog, rpc, entered, user, t0, t1, sout, aborted>>

\* the launcher may end the remaining ranks once a rank died on its own;
\* whether it does is left to the MPI runtime
LauncherKill ==
    /\ \E r \in Ranks : rst[r] = "exited"
    /\ \E r \in Ranks : rst[r] \notin {"done", "exited", "killed"}
    /\ rst' = [q \in Ranks |-> IF rst[q] \in {"done", "exited"} THEN rst[q] ELSE "killed"]
    /\ UNCHANGED <<magicvars, probe, prog, rpc, entered, user, t0, t1, sout, aborted>>

NextScript ==
    \/ \E r \in Ranks : StepImport(r)
    \/ \E r \in Ranks : BarrierEnter(r)
    \/ \E r \in Ranks : BarrierLeave(r)
    \/ \E r \in Ranks : StepT0(r)
    \/ \E r \in Ranks : StepT1(r)
    \/ \E r \in Ranks : UserBegin(r)
    \/ \E r \in Ranks : UserReturn(r)
    \/ \E r \in Ranks : UserRaise(r)
    \/ \E r \in Ranks : UserExit(r)
    \/ \E r \in Ranks : HandlerAbort(r)
    \/ \E r \in Ranks : StepPrintElapsed(r)
    \/ \E r \in Ranks : ScriptEnd(r)
    \/ LauncherKill

SpecScript == InitScript /\ [][NextScript]_vars


(***************************************************************************)
(* Properties of the wrapped script (SpecScript).                          *)
(***************************************************************************)
Elapsed == SelectSeq(sout, LAMBDA e : e.what = "elapsed")

\* C6: with --time every rank passes one barrier before the user code and
\* one after it: no rank sets _t0 or enters the user code before every rank
\* entered the first barrier, no rank sets _t1 before the user code returned
\* on every rank, a rank that ran the script to its end passed two barriers,
\* the elapsed time is printed by rank 0 only, never twice, and once in a
\* run that every rank completes.  Without --time no rank enters a barrier
\* or sets a timer and no elapsed time is printed.
C6_TimedWrapper ==
    IF time_mode
    THEN /\ \A r \in Ranks :
              /\ (t0[r] \/ user[r] # "none") => \A q \in Ranks : entered[q] >= 1
              /\ user[r] = "running" => entered[r] = 1
              /\ t1[r] => \A q \in Ranks : user[q] = "returned"
              /\ t1[r] => entered[r] = 2
              /\ rst[r] = "done" => (entered[r] = 2 /\ t0[r] /\ t1[r])
              /\ entered[r] <= 2
         /\ Len(Elapsed) <= 1
         /\ \A i \in 1..Len(Elapsed) : Elapsed[i].rank = 0
         /\ rst[0] = "done" => Len(Elapsed) = 1
    ELSE /\ \A r \in Ranks : entered[r] = 0 /\ ~t0[r] /\ ~t1[r]
         /\ Elapsed = <<>>

C6_Witness ==
    /\ time_mode
    /\ \A r \in Ranks : rst[r] = "done" /\ entered[r] = 2
    /\ Len(Elapsed) = 1

\* C7: a rank whose user code failed is taken by the guard, which prints
\* the trace and issues the collective abort: a failed rank stands in the
\* handler or has been ended by the abort, it never goes on to the statements
\* after the guard, and an abort comes with a printed trace.
C7_FailureAborts ==
    /\ \A r \in Ranks :
         user[r] \in {"Exception", "BaseException"}
         => /\ rst[r] \in {"handler", "killed"}
            /\ rst[r] = "killed" => aborted
    /\ aborted => \E i \in 1..Len(sout) : sout[i].what = "traceback"

=============================================================================
